---- MODULE Spec2Model ----
(***************************************************************************)
(* Model of the homepage route of Dester-Backend                           *)
(* (src/app/api/routes/home.py) and of the error handler that wraps it     *)
(* (src/main.py).  home() is a synchronous FastAPI endpoint, so the        *)
(* framework runs each request on a worker thread: several calls of home() *)
(* can be in progress at once and they share the module-level object       *)
(* mongo (its category list and its collections).                          *)
(***************************************************************************)
EXTENDS Integers, Sequences, FiniteSets, Bags, TLC

(* ------------------------------ bounds --------------------------------- *)
MaxCats == 2        \* longest category list explored
MaxRecs == 16       \* size of the largest collection explored
NumShapes == 4      \* number of collection contents explored
Requests == {"r1", "r2"}   \* worker threads serving GET /home
Types == {"movies", "series", "anime"}   \* values of category["type"] explored

(* ------------------------- program constants --------------------------- *)
data_cap_limit == 15
carousel_take == 3

unwanted_keys == {"_id", "cast", "seasons", "file_name", "subtitles",
                  "external_ids", "collection", "homepage",
                  "last_episode_to_air", "next_episode_to_air"}

VARIABLES categories,   \* mongo.categories: the shared list of category dicts
          metadata,     \* mongo.metadata[id]: the collection of each category
          pc,           \* position of each request inside home()
          idx,          \* position of the for loop over mongo.categories
          frame,        \* the local lists of each running call
          returned,     \* TRUE when resp[r] holds the response of a finished call
          resp,         \* the response the client of r received last
          queries,      \* number of aggregate() calls issued by the call of r
          built,        \* some call has built a snapshot successfully
          snapshot,     \* the data of the last successfully built snapshot
          seenBuilt,    \* built, as it was when the call of r started
          seen,         \* snapshot, as it was when the call of r started
          failed        \* ids of the categories whose query raised in the call of r

vars == <<categories, metadata, pc, idx, frame, returned, resp, queries,
          built, snapshot, seenBuilt, seen, failed>>

(* ------------------------------ helpers -------------------------------- *)
Max2(a, b) == IF a >= b THEN a ELSE b

RECURSIVE MaxOf(_)
MaxOf(s) == IF Len(s) = 1 THEN s[1] ELSE Max2(s[1], MaxOf(Tail(s)))

Take(s, n) == SubSeq(s, 1, IF Len(s) < n THEN Len(s) ELSE n)

(* The value MongoDB's $sort compares for a field path: a top-level field *)
(* is compared by its value, the nested path seasons.episodes.modified_time*)
(* (an array) is compared, in a descending sort, by its largest element.   *)
SortKey(d, f) ==
    IF f = "seasons.episodes.modified_time" THEN MaxOf(d["seasons"]) ELSE d[f]

(* Insert d into t, which is sorted descending by f, behind every element  *)
(* whose key is not smaller: elements with equal keys keep their order.    *)
RECURSIVE InsertDesc(_, _, _)
InsertDesc(d, t, f) ==
    IF t = <<>> THEN <<d>>
    ELSE IF SortKey(t[1], f) >= SortKey(d, f)
         THEN <<t[1]>> \o InsertDesc(d, Tail(t), f)
         ELSE <<d>> \o t

RECURSIVE SortDescFrom(_, _, _)
SortDescFrom(s, acc, f) ==
    IF s = <<>> THEN acc
    ELSE SortDescFrom(Tail(s), InsertDesc(s[1], acc, f), f)

(* sorted(s, key=lambda k: k[f], reverse=True): stable, descending.        *)
sorted(s, f) == SortDescFrom(s, <<>>, f)

(* {'$project': unwanted_keys}: drop the excluded fields of a document.    *)
Project(d) == [k \in (DOMAIN d) \ unwanted_keys |-> d[k]]

(* aggregate with the stages in the wrong order: $limit before $sort, so  *)
(* the slice is a sorted sample of the first documents of the collection.  *)
aggregate_LimitBeforeSort(col, f) ==
    LET s == sorted(Take(col, data_cap_limit), f)
    IN  [i \in 1..Len(s) |-> Project(s[i])]

(* category_col.aggregate([{$sort: {f: -1}}, {$limit: data_cap_limit},     *)
(* {$project: unwanted_keys}]): sort, then truncate, then project.         *)
aggregate(col, f) ==
    LET s == Take(sorted(col, f), data_cap_limit)
    IN  [i \in 1..Len(s) |-> Project(s[i])]

(* ------------------------------ the store ------------------------------ *)
(* A document of collection c; its key tmdb_id is unique in the store and  *)
(* tmdb_id \div 100 is the collection it lives in.                         *)
Doc(c, k, p, rt, m) ==
    [tmdb_id |-> c * 100 + k, popularity |-> p, rating |-> rt,
     modified_time |-> m, seasons |-> <<m - 1, m>>, file_name |-> "f"]

Shape(c, s) ==
    CASE s = 0 -> <<Doc(c, 1, 9, 5, 3), Doc(c, 2, 10, 7, 1), Doc(c, 3, 8, 7, 2)>>
      [] s = 1 -> <<Doc(c, 1, 6, 8, 6), Doc(c, 2, 7, 6, 4), Doc(c, 3, 5, 6, 5)>>
      [] s = 2 -> <<>>
      [] OTHER -> [k \in 1..MaxRecs |->
                     Doc(c, k, (k * 7) % 11, (k * 3) % 5, (k * 5) % 13)]

CollectionOf(d) == d["tmdb_id"] \div 100

EmptySnapshot ==
    [categories |-> <<>>, carousel |-> <<>>,
     most_popular_movies |-> <<>>, most_popular_series |-> <<>>,
     top_rated_movies |-> <<>>, top_rated_series |-> <<>>,
     newly_added_movies |-> <<>>, newly_added_episodes |-> <<>>]

(* The local lists of home(), lines 34-41, and the two query results the   *)
(* loop body keeps between its statements.                                 *)
NewFrame ==
    [categories_data |-> <<>>, carousel_data |-> <<>>,
     most_popular_movies_data |-> <<>>, most_popular_series_data |-> <<>>,
     top_rated_series_data |-> <<>>, top_rated_movies_data |-> <<>>,
     newly_added_movies_data |-> <<>>, newly_added_episodes_data |-> <<>>,
     sorted_popularity_data |-> <<>>, sorted_top_rated_data |-> <<>>]

NoResponse == [ok |-> FALSE, message |-> "none"]

Init ==
    /\ \E n \in 0..MaxCats : \E ts \in [1..n -> Types] :
          categories = [i \in 1..n |-> [id |-> i, type |-> ts[i]]]
    /\ \E offset \in 0..(NumShapes - 1) :
          metadata = [c \in 1..MaxCats |-> Shape(c, (c + offset) % NumShapes)]
    /\ pc = [r \in Requests |-> "idle"]
    /\ idx = [r \in Requests |-> 1]
    /\ frame = [r \in Requests |-> NewFrame]
    /\ returned = [r \in Requests |-> FALSE]
    /\ resp = [r \in Requests |-> NoResponse]
    /\ queries = [r \in Requests |-> 0]
    /\ built = FALSE
    /\ snapshot = EmptySnapshot
    /\ seenBuilt = [r \in Requests |-> FALSE]
    /\ seen = [r \in Requests |-> EmptySnapshot]
    /\ failed = [r \in Requests |-> {}]

(* ------------------------------ home() --------------------------------- *)
(* Lines 26-54: a request enters home(); "if True" always takes the        *)
(* regenerating branch, the local lists are created empty and the loop     *)
(* over mongo.categories starts.                                           *)
Begin(r) ==
    /\ pc[r] = "idle"
    /\ frame' = [frame EXCEPT ![r] = NewFrame]
    /\ idx' = [idx EXCEPT ![r] = 1]
    /\ pc' = [pc EXCEPT ![r] = IF Len(categories) = 0 THEN "sort" ELSE "popularity"]
    /\ returned' = [returned EXCEPT ![r] = FALSE]
    /\ resp' = [resp EXCEPT ![r] = NoResponse]
    /\ queries' = [queries EXCEPT ![r] = 0]
    /\ seenBuilt' = [seenBuilt EXCEPT ![r] = built]
    /\ seen' = [seen EXCEPT ![r] = snapshot]
    /\ failed' = [failed EXCEPT ![r] = {}]
    /\ UNCHANGED <<categories, metadata, built, snapshot>>

(* Lines 55-70: the popularity query; its result is stored INTO the shared *)
(* category dict, the dict is appended to categories_data (by reference)   *)
(* and its first three documents go to the carousel.                       *)
QueryPopularity(r) ==
    /\ pc[r] = "popularity"
    /\ LET i == idx[r]
           category_col == metadata[categories[i]["id"]]
           data == aggregate(category_col, "popularity")
       IN  /\ categories' = [categories EXCEPT
                               ![i] = ("metadata" :> data) @@ categories[i]]
           /\ frame' = [frame EXCEPT
                 ![r].sorted_popularity_data = data,
                 ![r].categories_data = Append(@, i),
                 ![r].carousel_data = @ \o Take(data, carousel_take)]
    /\ queries' = [queries EXCEPT ![r] = @ + 1]
    /\ pc' = [pc EXCEPT ![r] = "top_rated"]
    /\ UNCHANGED <<metadata, idx, returned, resp, built, snapshot, seenBuilt,
                   seen, failed>>

(* Lines 72-82: the rating query.                                          *)
QueryTopRated(r) ==
    /\ pc[r] = "top_rated"
    /\ LET category_col == metadata[categories[idx[r]]["id"]]
       IN  frame' = [frame EXCEPT
                 ![r].sorted_top_rated_data = aggregate(category_col, "rating")]
    /\ queries' = [queries EXCEPT ![r] = @ + 1]
    /\ pc' = [pc EXCEPT ![r] = "newly_added"]
    /\ UNCHANGED <<categories, metadata, idx, returned, resp, built, snapshot,
                   seenBuilt, seen, failed>>

(* Lines 84-113: the branch on category["type"], the recency query of the  *)
(* branch and the three extends; then the loop advances.                   *)
QueryNewlyAdded(r) ==
    /\ pc[r] = "newly_added"
    /\ LET category == categories[idx[r]]
           category_col == metadata[category["id"]]
           f == frame[r]
       IN  IF category["type"] = "movies"
           THEN frame' = [frame EXCEPT
                   ![r].most_popular_movies_data = @ \o f.sorted_popularity_data,
                   ![r].top_rated_movies_data = @ \o f.sorted_top_rated_data,
                   ![r].newly_added_movies_data =
                        @ \o aggregate(category_col, "modified_time")]
           ELSE frame' = [frame EXCEPT
                   ![r].most_popular_series_data = @ \o f.sorted_popularity_data,
                   ![r].top_rated_series_data = @ \o f.sorted_top_rated_data,
                   ![r].newly_added_episodes_data =
                        @ \o aggregate(category_col, "seasons.episodes.modified_time")]
    /\ queries' = [queries EXCEPT ![r] = @ + 1]
    /\ idx' = [idx EXCEPT ![r] = @ + 1]
    /\ pc' = [pc EXCEPT ![r] = IF idx[r] = Len(categories) THEN "sort" ELSE "popularity"]
    /\ UNCHANGED <<categories, metadata, returned, resp, built, snapshot,
                   seenBuilt, seen, failed>>

(* main.py lines 91-98: the handler of an exception that leaves home().    *)
(* error_msg is str(exc); the model keeps the category whose query raised. *)
Error500(exc) ==
    [ok |-> FALSE, message |-> "Internal server error", error_msg |-> exc]

(* Any of the three aggregate() calls raises (store unreachable, missing   *)
(* collection): home() has no try/except, the exception leaves it and the  *)
(* application answers with the 500 handler.                               *)
QueryFails(r) ==
    /\ pc[r] \in {"popularity", "top_rated", "newly_added"}
    /\ queries' = [queries EXCEPT ![r] = @ + 1]
    /\ resp' = [resp EXCEPT ![r] = Error500(categories[idx[r]]["id"])]
    /\ returned' = [returned EXCEPT ![r] = TRUE]
    /\ failed' = [failed EXCEPT ![r] = {categories[idx[r]]["id"]}]
    /\ pc' = [pc EXCEPT ![r] = "idle"]
    /\ UNCHANGED <<categories, metadata, idx, frame, built, snapshot,
                   seenBuilt, seen>>

(* The re-sorts without the one of the carousel (lines 114-116 missing).   *)
SortedFrame_NoCarouselSort(f) ==
    [f EXCEPT
       !.most_popular_movies_data = sorted(@, "popularity"),
       !.most_popular_series_data = sorted(@, "popularity"),
       !.top_rated_movies_data = sorted(@, "rating"),
       !.top_rated_series_data = sorted(@, "rating"),
       !.newly_added_movies_data = sorted(@, "modified_time")]

(* Lines 114-131: the global re-sorts.  newly_added_episodes_data is the   *)
(* one list the code does not re-sort.                                     *)
SortedFrame(f) ==
    [f EXCEPT
       !.carousel_data = sorted(@, "popularity"),
       !.most_popular_movies_data = sorted(@, "popularity"),
       !.most_popular_series_data = sorted(@, "popularity"),
       !.top_rated_movies_data = sorted(@, "rating"),
       !.top_rated_series_data = sorted(@, "rating"),
       !.newly_added_movies_data = sorted(@, "modified_time")]

(* A response whose ok flag says whether any category was collected.       *)
Response_OkIffData(f) ==
    [ok |-> f.categories_data # <<>>, message |-> "success",
     data |-> [categories |-> [k \in 1..Len(f.categories_data) |->
                                  categories[f.categories_data[k]]],
               carousel |-> f.carousel_data,
               most_popular_movies |-> f.most_popular_movies_data,
               most_popular_series |-> f.most_popular_series_data,
               top_rated_movies |-> f.top_rated_movies_data,
               top_rated_series |-> f.top_rated_series_data,
               newly_added_movies |-> f.newly_added_movies_data,
               newly_added_episodes |-> f.newly_added_episodes_data]]

(* Lines 143-157: the response.  categories_data holds references to the   *)
(* shared category dicts, so the section shows them as they are now.       *)
Response(f) ==
    [ok |-> TRUE, message |-> "success",
     data |-> [categories |-> [k \in 1..Len(f.categories_data) |->
                                  categories[f.categories_data[k]]],
               carousel |-> f.carousel_data,
               most_popular_movies |-> f.most_popular_movies_data,
               most_popular_series |-> f.most_popular_series_data,
               top_rated_movies |-> f.top_rated_movies_data,
               top_rated_series |-> f.top_rated_series_data,
               newly_added_movies |-> f.newly_added_movies_data,
               newly_added_episodes |-> f.newly_added_episodes_data]]

(* Lines 114-157: sort, build the response and return it.  The cache.set   *)
(* of line 132 is commented out: nothing is stored for later calls; built  *)
(* and snapshot only record what the call produced.                        *)
Finish(r) ==
    /\ pc[r] = "sort"
    /\ LET f == SortedFrame(frame[r])
       IN  /\ frame' = [frame EXCEPT ![r] = f]
           /\ resp' = [resp EXCEPT ![r] = Response(f)]
           /\ snapshot' = Response(f).data
    /\ built' = TRUE
    /\ returned' = [returned EXCEPT ![r] = TRUE]
    /\ pc' = [pc EXCEPT ![r] = "idle"]
    /\ UNCHANGED <<categories, metadata, idx, queries, seenBuilt, seen, failed>>

Next ==
    \E r \in Requests :
       \/ Begin(r)
       \/ QueryPopularity(r)
       \/ QueryTopRated(r)
       \/ QueryNewlyAdded(r)
       \/ QueryFails(r)
       \/ Finish(r)

Spec == Init /\ [][Next]_vars

(* ------------------------- vocabulary of the claims -------------------- *)
Range(s) == {s[i] : i \in DOMAIN s}

SeqToBag(s) == [x \in Range(s) |-> Cardinality({i \in DOMAIN s : s[i] = x})]

IsSortedDesc(s, f) == \A i \in 1..(Len(s) - 1) : s[i][f] >= s[i + 1][f]

RECURSIVE Contributions(_)
Contributions(cats) ==
    IF cats = <<>> THEN <<>>
    ELSE Take(cats[1]["metadata"], 3) \o Contributions(Tail(cats))

Popularities(s) == [i \in 1..Len(s) |-> s[i]["popularity"]]

OkResponse(r) == returned[r] /\ resp[r].ok

TypeOfCollection(c) == categories[c]["type"]

(* C1: the carousel of every successful response is the concatenation of   *)
(* the first 3 records of each category's popularity slice, sorted by      *)
(* popularity descending, with no record dropped or duplicated; for the    *)
(* collections {10,9,8} and {7,6,5} it is [10,9,8,7,6,5].                  *)
C1_Carousel ==
    \A r \in Requests : OkResponse(r) =>
       LET d == resp[r].data
       IN  /\ IsSortedDesc(d.carousel, "popularity")
           /\ SeqToBag(d.carousel) = SeqToBag(Contributions(d.categories))
           /\ Len(d.carousel) = Len(Contributions(d.categories))
           /\ (/\ Len(categories) = 2
               /\ metadata[1] = Shape(1, 0)
               /\ metadata[2] = Shape(2, 1))
              => Popularities(d.carousel) = <<10, 9, 8, 7, 6, 5>>

(* A successful response over two or more categories whose concatenated    *)
(* contributions were not already in order: the re-sort moved records.     *)
C1_Witness ==
    \E r \in Requests :
       /\ OkResponse(r)
       /\ Len(resp[r].data.categories) >= 2
       /\ Len(resp[r].data.carousel) > 3
       /\ resp[r].data.carousel # Contributions(resp[r].data.categories)

(* C2: in every successful response each of the six merged lists is sorted *)
(* descending by its key: popularity, rating, modified time.               *)
C2_AllSixSorted ==
    \A r \in Requests : OkResponse(r) =>
       LET d == resp[r].data
       IN  /\ IsSortedDesc(d.most_popular_movies, "popularity")
           /\ IsSortedDesc(d.most_popular_series, "popularity")
           /\ IsSortedDesc(d.top_rated_movies, "rating")
           /\ IsSortedDesc(d.top_rated_series, "rating")
           /\ IsSortedDesc(d.newly_added_movies, "modified_time")
           /\ IsSortedDesc(d.newly_added_episodes, "modified_time")

(* C3: a call of home() that starts after a snapshot was built returns     *)
(* that snapshot and issues no query to the store.                         *)
C3_NoQueryAfterBuild ==
    \A r \in Requests : (returned[r] /\ seenBuilt[r]) =>
       /\ queries[r] = 0
       /\ resp[r].ok
       /\ resp[r].data = seen[r]

(* C4: once a snapshot was built, a call whose regeneration fails still    *)
(* answers ok=true with the previously built snapshot.                     *)
C4_StaleServed ==
    \A r \in Requests : (returned[r] /\ seenBuilt[r] /\ failed[r] # {}) =>
       /\ resp[r].ok
       /\ resp[r].data = seen[r]

(* C5: when the queries of exactly one category X fail during a build, the *)
(* response is ok=true and covers every other category, with X absent.     *)
C5_OneCategoryExcluded ==
    \A r \in Requests : (returned[r] /\ Cardinality(failed[r]) = 1) =>
       /\ resp[r].ok
       /\ {resp[r].data.categories[k]["id"] : k \in DOMAIN resp[r].data.categories}
             = {categories[i]["id"] : i \in DOMAIN categories} \ failed[r]
       /\ \A x \in Range(resp[r].data.carousel) : CollectionOf(x) \notin failed[r]

(* C6: at most one call is inside the regeneration at any time.            *)
C6_SingleRegeneration ==
    Cardinality({r \in Requests : pc[r] # "idle"}) <= 1

(* C7: most_popular_movies holds only records of categories of kind movies *)
(* and most_popular_series only records of categories of kind series.      *)
C7_KindPartition ==
    \A r \in Requests : OkResponse(r) =>
       /\ \A x \in Range(resp[r].data.most_popular_movies) :
             TypeOfCollection(CollectionOf(x)) = "movies"
       /\ \A x \in Range(resp[r].data.most_popular_series) :
             TypeOfCollection(CollectionOf(x)) = "series"

(* C8: the popularity slice attached to every category of a successful     *)
(* response has at most data_cap_limit records, is sorted by popularity    *)
(* non-increasing and holds the highest-popularity records of the          *)
(* category's collection.                                                  *)
C8_PopularitySlice ==
    \A r \in Requests : OkResponse(r) =>
       \A k \in DOMAIN resp[r].data.categories :
          LET c == resp[r].data.categories[k]
              m == c["metadata"]
              col == metadata[c["id"]]
              ids == {m[i]["tmdb_id"] : i \in DOMAIN m}
          IN  /\ Len(m) <= data_cap_limit
              /\ IsSortedDesc(m, "popularity")
              /\ Len(m) = (IF Len(col) < data_cap_limit THEN Len(col)
                           ELSE data_cap_limit)
              /\ Cardinality(ids) = Len(m)
              /\ \A i \in DOMAIN m : \E j \in DOMAIN col :
                    /\ col[j]["tmdb_id"] = m[i]["tmdb_id"]
                    /\ col[j]["popularity"] = m[i]["popularity"]
              /\ \A j \in DOMAIN col : col[j]["tmdb_id"] \notin ids =>
                    \A i \in DOMAIN m : m[i]["popularity"] >= col[j]["popularity"]

(* A successful response with a category whose collection is larger than   *)
(* the cap and is not stored in popularity order.                          *)
C8_Witness ==
    \E r \in Requests :
       /\ OkResponse(r)
       /\ \E k \in DOMAIN resp[r].data.categories :
             LET col == metadata[resp[r].data.categories[k]["id"]]
             IN  /\ Len(col) > data_cap_limit
                 /\ ~IsSortedDesc(col, "popularity")

(* C9: with an empty category list home() answers ok=true, all eight       *)
(* sections are empty and no store query is issued.                        *)
C9_EmptyCategoryList ==
    \A r \in Requests : (returned[r] /\ Len(categories) = 0) =>
       /\ resp[r].ok
       /\ resp[r].data = EmptySnapshot
       /\ queries[r] = 0

(* A finished call over an empty category list.                            *)
C9_Witness ==
    \E r \in Requests : returned[r] /\ Len(categories) = 0

(* C10: the category objects of the configuration store keep the fields    *)
(* and values they had before any call of home().                          *)
C10_CategoriesUnchanged ==
    \A i \in DOMAIN categories :
       categories[i] = [id |-> i, type |-> categories[i]["type"]]

====
